---- MODULE Spec2Model ----
(***************************************************************************)
(* Model of langml/transformer/layers.py: the FeedForward layer and the    *)
(* SineCosinePositionEmbedding layer.                                      *)
(*                                                                         *)
(* Tensors are modelled symbolically: a tensor is its shape together with  *)
(* the sequence of operations that produced it, so that two tensors are    *)
(* equal exactly when they were computed the same way from the same input, *)
(* the same parameter tensors and the same dropout mask.                   *)
(***************************************************************************)
EXTENDS Integers, Sequences, FiniteSets, TLC

\* ------------------------------------------------------------------ bounds
MaxUnits  == 2      \* hidden widths 1..MaxUnits
MaxFeat   == 2      \* feature dimensions 1..MaxFeat
MaxBatch  == 2      \* batch size of the example inputs
MaxSeq    == 2      \* sequence length of the example inputs
MaxBuilds == 2      \* build() calls on one FeedForward instance
NMasks    == 2      \* distinct random dropout masks a training call may draw
MaxDim    == 4      \* output_dim arguments 0..MaxDim

VARIABLES
    ff,        \* the FeedForward instance (its attributes)
    ffOut,     \* what the latest call() or compute_output_shape() on ff returned
    ffPrev,    \* what the call() before the latest returned, on the same input
    ffCfg,     \* what the latest get_config() on ff returned
    ffFrom,    \* the mapping ff was reconstructed from, if it was
    pe,        \* the SineCosinePositionEmbedding instance (its attributes)
    peCtor,    \* arguments and outcome of the latest construction attempt
    peOut,     \* what the latest call() on pe returned
    peShape,   \* what the latest compute_output_shape() on pe returned
    peCfg,     \* what the latest get_config() on pe returned
    peFrom     \* the mapping pe was reconstructed from, if it was

ffVars == <<ff, ffOut, ffPrev, ffCfg, ffFrom>>
peVars == <<pe, peCtor, peOut, peShape, peCfg, peFrom>>
vars   == <<ff, ffOut, ffPrev, ffCfg, ffFrom,
            pe, peCtor, peOut, peShape, peCfg, peFrom>>

\* ----------------------------------------------------------------- helpers
Last(s)  == s[Len(s)]
Front(s) == SubSeq(s, 1, Len(s) - 1)

\* Python's None for an optional integer: {} is None, {v} is the integer v.
None       == {}
Some(v)    == {v}
IsNone(x)  == x = {}
ValOf(x)   == CHOOSE v \in x : TRUE

\* ------------------------------------------ keras identifier registries
\* keras.activations.get / serialize as used by FeedForward: an identifier
\* is a name or None; None resolves to the identity function `linear`.
ActivationIds == {"None", "relu", "linear"}
ActivationsGet(identifier) ==
    CASE identifier = "None"   -> "<function linear>"
      [] identifier = "linear" -> "<function linear>"
      [] identifier = "relu"   -> "<function relu>"
      [] OTHER                 -> identifier
ActivationsSerialize(fn) ==
    CASE fn = "<function linear>" -> "linear"
      [] fn = "<function relu>"   -> "relu"
      [] OTHER                    -> fn

\* keras.initializers.get / serialize: a name (snake or class form) or a
\* serialized mapping resolves to an initializer object; an object
\* serializes to its mapping.
InitializerIds == {"glorot_normal", "GlorotNormal", "zeros"}
InitializersGet(identifier) ==
    CASE identifier \in {"glorot_normal", "GlorotNormal", "{class_name: GlorotNormal}"}
             -> "<GlorotNormal object>"
      [] identifier \in {"zeros", "Zeros", "{class_name: Zeros}"}
             -> "<Zeros object>"
      [] OTHER -> identifier
InitializersSerialize(obj) ==
    CASE obj = "<GlorotNormal object>" -> "{class_name: GlorotNormal}"
      [] obj = "<Zeros object>"        -> "{class_name: Zeros}"
      [] OTHER                         -> obj

\* keras.regularizers.get / serialize: None stays None.
RegularizerIds == {"None", "l2"}
RegularizersGet(identifier) ==
    CASE identifier = "None" -> "None"
      [] identifier \in {"l2", "{class_name: L1L2}"} -> "<L1L2 object>"
      [] OTHER -> identifier
RegularizersSerialize(obj) ==
    CASE obj = "None"          -> "None"
      [] obj = "<L1L2 object>" -> "{class_name: L1L2}"
      [] OTHER                 -> obj

\* keras.constraints.get / serialize: None stays None.
ConstraintIds == {"None", "non_neg"}
ConstraintsGet(identifier) ==
    CASE identifier = "None" -> "None"
      [] identifier \in {"non_neg", "NonNeg", "{class_name: NonNeg}"} -> "<NonNeg object>"
      [] OTHER -> identifier
ConstraintsSerialize(obj) ==
    CASE obj = "None"            -> "None"
      [] obj = "<NonNeg object>" -> "{class_name: NonNeg}"
      [] OTHER                   -> obj

\* dropout_rate in tenths: 0 is 0.0 (the default), 5 is 0.5.
DropoutRates == {0, 5}

\* ------------------------------------------------------ FeedForward object
FFKwargs == [name |-> "feed_forward", trainable |-> TRUE]

\* Constructor arguments exercised by the build/call lifecycle.
FFArgsCore ==
    [units : 1..MaxUnits, activation : {"None", "relu"},
     kernel_initializer : {"glorot_normal"}, kernel_regularizer : {"None"},
     kernel_constraint : {"None"}, bias_initializer : {"zeros"},
     bias_regularizer : {"None"}, bias_constraint : {"None"},
     use_bias : BOOLEAN, dropout_rate : DropoutRates]

\* Constructor arguments exercised by the configuration round trip.
FFArgsAll ==
    [units : 1..MaxUnits, activation : ActivationIds,
     kernel_initializer : InitializerIds, kernel_regularizer : RegularizerIds,
     kernel_constraint : ConstraintIds, bias_initializer : {"zeros", "glorot_normal"},
     bias_regularizer : {"None"}, bias_constraint : {"None"},
     use_bias : BOOLEAN, dropout_rate : DropoutRates]

\* No instance: no attribute is set.
FFNull ==
    [exists |-> FALSE, name |-> "", trainable |-> FALSE, built |-> FALSE,
     weights |-> <<>>, supports_masking |-> FALSE, units |-> 0,
     activation |-> "", kernel_initializer |-> "", kernel_regularizer |-> "",
     kernel_constraint |-> "", bias_initializer |-> "", bias_regularizer |-> "",
     bias_constraint |-> "", use_bias |-> FALSE, dropout_rate |-> 0,
     W1 |-> 0, W2 |-> 0, b1 |-> 0, b2 |-> 0, dropout_layer |-> FALSE,
     build_input_shape |-> <<>>]

\* FeedForward.__init__: the instance right after construction.  W1, W2, b1,
\* b2 hold the index of a tensor in `weights`; 0 is "attribute not set".
FFNew(args, kwargs) ==
    [exists |-> TRUE, name |-> kwargs.name, trainable |-> kwargs.trainable,
     built |-> FALSE, weights |-> <<>>,
     supports_masking   |-> TRUE,
     units              |-> args.units,
     activation         |-> ActivationsGet(args.activation),
     kernel_initializer |-> InitializersGet(args.kernel_initializer),
     kernel_regularizer |-> RegularizersGet(args.kernel_regularizer),
     kernel_constraint  |-> ConstraintsGet(args.kernel_constraint),
     bias_initializer   |-> InitializersGet(args.bias_initializer),
     bias_regularizer   |-> RegularizersGet(args.bias_regularizer),
     bias_constraint    |-> ConstraintsGet(args.bias_constraint),
     use_bias           |-> args.use_bias,
     dropout_rate       |-> args.dropout_rate,
     W1 |-> 0, W2 |-> 0, b1 |-> 0, b2 |-> 0, dropout_layer |-> FALSE,
     build_input_shape |-> <<>>]

\* Layer.add_weight: a new parameter tensor appended to the layer's weights.
AddWeight(weights, shape, initializer, regularizer, constraint, name) ==
    Append(weights, [name |-> name, shape |-> shape, initializer |-> initializer,
                     regularizer |-> regularizer, constraint |-> constraint])

W1Shape(feature_dim, units) == <<feature_dim, units>>

W2Shape_Transposed(feature_dim, units) == <<feature_dim, units>>
W2Shape(feature_dim, units) == <<units, feature_dim>>

BuildsBias_Always(self) == TRUE
BuildsBias(self) == self.use_bias

BuildsDropout_NonNegative(self) == self.dropout_rate >= 0
BuildsDropout(self) == self.dropout_rate > 0

\* FeedForward.build: the instance after build(input_shape).  The base
\* layer's build records the shape and marks the layer built.
FFBuildObj(self, input_shape) ==
    LET feature_dim == Last(input_shape)
        ws1 == AddWeight(self.weights, W1Shape(feature_dim, self.units),
                         self.kernel_initializer, self.kernel_regularizer,
                         self.kernel_constraint, <<self.name, "W1">>)
        ws2 == AddWeight(ws1, W2Shape(feature_dim, self.units),
                         self.kernel_initializer, self.kernel_regularizer,
                         self.kernel_constraint, <<self.name, "W2">>)
        ws3 == IF BuildsBias(self)
               THEN AddWeight(ws2, <<self.units>>,
                              self.bias_initializer, self.bias_regularizer,
                              self.bias_constraint, <<self.name, "b1">>)
               ELSE ws2
        ws4 == IF BuildsBias(self)
               THEN AddWeight(ws3, <<feature_dim>>,
                              self.bias_initializer, self.bias_regularizer,
                              self.bias_constraint, <<self.name, "b2">>)
               ELSE ws3
    IN  [self EXCEPT !.weights = ws4,
                     !.W1 = Len(ws1),
                     !.W2 = Len(ws2),
                     !.b1 = IF BuildsBias(self) THEN Len(ws3) ELSE @,
                     !.b2 = IF BuildsBias(self) THEN Len(ws4) ELSE @,
                     !.dropout_layer = IF BuildsDropout(self) THEN TRUE ELSE @,
                     !.build_input_shape = input_shape,
                     !.built = TRUE]

\* How many times build() has allocated on this instance.
FFBuilds(self) ==
    Cardinality({i \in DOMAIN self.weights : self.weights[i].name[2] = "W1"})

\* ----------------------------------------------------------------- tensors
\* A tensor: its shape and the operations that produced it.  A failed
\* operation yields an error value that every later operation passes on.
Step(op, p, w, fn, mask) == [op |-> op, p |-> p, w |-> w, fn |-> fn, mask |-> mask]
Tensor(shape, steps) == [status |-> "ok", shape |-> shape, steps |-> steps]
Raised(error)        == [status |-> error, shape |-> <<>>, steps |-> <<>>]
InputTensor(shape)   == Tensor(shape, <<Step("input", "", 0, "", 0)>>)

\* K.dot(x, w) for a 2-D w: contracts the last axis of x with the first of w.
KDot(x, w, p, id) ==
    IF x.status # "ok" THEN x
    ELSE IF Len(x.shape) < 2 \/ Last(x.shape) # w.shape[1]
         THEN Raised("ValueError")
         ELSE Tensor(Front(x.shape) \o <<w.shape[2]>>,
                     Append(x.steps, Step("dot", p, id, "", 0)))

\* K.bias_add(x, b) for a 1-D b: adds b along the last axis of x.
KBiasAdd(x, b, p, id) ==
    IF x.status # "ok" THEN x
    ELSE IF Last(x.shape) # b.shape[1]
         THEN Raised("ValueError")
         ELSE Tensor(x.shape, Append(x.steps, Step("bias_add", p, id, "", 0)))

\* An activation function applied elementwise.
Activate(fn, x) ==
    IF x.status # "ok" THEN x
    ELSE Tensor(x.shape, Append(x.steps, Step("activation", "", 0, fn, 0)))

\* L.Dropout(rate)(x): in training the random mask `mask` (1..NMasks) is
\* applied; in inference the layer returns x itself (mask 0).
Dropout(x, training, mask) ==
    IF x.status # "ok" THEN x
    ELSE Tensor(x.shape, Append(x.steps,
                    Step("dropout", "", 0, "", IF training THEN mask ELSE 0)))

AppliesBias(self)    == self.use_bias
AppliesDropout(self) == self.dropout_rate > 0

\* FeedForward.call with dropout applied before the activation.
FFCallObj_DropoutFirst(self, inputs, training, mask) ==
    IF self.W1 = 0 THEN Raised("AttributeError")
    ELSE
    LET h1 == KDot(inputs, self.weights[self.W1], "W1", self.W1)
        h2 == IF AppliesBias(self)
              THEN KBiasAdd(h1, self.weights[self.b1], "b1", self.b1) ELSE h1
        h3 == IF AppliesDropout(self)
              THEN (IF self.dropout_layer THEN Dropout(h2, training, mask)
                    ELSE Raised("AttributeError"))
              ELSE h2
        h4 == IF self.activation # "None" THEN Activate(self.activation, h3) ELSE h3
        o1 == KDot(h4, self.weights[self.W2], "W2", self.W2)
        o2 == IF AppliesBias(self)
              THEN KBiasAdd(o1, self.weights[self.b2], "b2", self.b2) ELSE o1
    IN  o2

\* FeedForward.call: the tensor call(inputs, training=training) returns.
\* Reading self.W1 before build raises AttributeError.
FFCallObj(self, inputs, training, mask) ==
    IF self.W1 = 0 THEN Raised("AttributeError")
    ELSE
    LET h1 == KDot(inputs, self.weights[self.W1], "W1", self.W1)
        h2 == IF AppliesBias(self)
              THEN KBiasAdd(h1, self.weights[self.b1], "b1", self.b1) ELSE h1
        h3 == IF self.activation # "None" THEN Activate(self.activation, h2) ELSE h2
        h4 == IF AppliesDropout(self)
              THEN (IF self.dropout_layer THEN Dropout(h3, training, mask)
                    ELSE Raised("AttributeError"))
              ELSE h3
        o1 == KDot(h4, self.weights[self.W2], "W2", self.W2)
        o2 == IF AppliesBias(self)
              THEN KBiasAdd(o1, self.weights[self.b2], "b2", self.b2) ELSE o1
    IN  o2

\* FeedForward.compute_output_shape
FFComputeOutputShape(self, input_shape) == Tensor(input_shape, <<>>)

\* FeedForward.get_config with the kernel and bias initializers swapped.
FFGetConfig_Swapped(self) ==
    [units              |-> self.units,
     activation         |-> ActivationsSerialize(self.activation),
     kernel_initializer |-> InitializersSerialize(self.bias_initializer),
     kernel_regularizer |-> RegularizersSerialize(self.kernel_regularizer),
     kernel_constraint  |-> ConstraintsSerialize(self.kernel_constraint),
     bias_initializer   |-> InitializersSerialize(self.kernel_initializer),
     bias_regularizer   |-> RegularizersSerialize(self.bias_regularizer),
     bias_constraint    |-> ConstraintsSerialize(self.bias_constraint),
     use_bias           |-> self.use_bias,
     dropout_rate       |-> self.dropout_rate]
    @@ [name |-> self.name, trainable |-> self.trainable]

\* FeedForward.get_config: dict(base_config, **config), the layer's own
\* entries taking precedence over the base layer's (name, trainable).
FFGetConfig(self) ==
    [units              |-> self.units,
     activation         |-> ActivationsSerialize(self.activation),
     kernel_initializer |-> InitializersSerialize(self.kernel_initializer),
     kernel_regularizer |-> RegularizersSerialize(self.kernel_regularizer),
     kernel_constraint  |-> ConstraintsSerialize(self.kernel_constraint),
     bias_initializer   |-> InitializersSerialize(self.bias_initializer),
     bias_regularizer   |-> RegularizersSerialize(self.bias_regularizer),
     bias_constraint    |-> ConstraintsSerialize(self.bias_constraint),
     use_bias           |-> self.use_bias,
     dropout_rate       |-> self.dropout_rate]
    @@ [name |-> self.name, trainable |-> self.trainable]

\* The constructor fields of FeedForward.
FFFields == {"units", "activation", "kernel_initializer", "kernel_regularizer",
             "kernel_constraint", "bias_initializer", "bias_regularizer",
             "bias_constraint", "use_bias", "dropout_rate"}

\* Layer.from_config: cls(**config).
FFFromConfigObj(config) ==
    FFNew([f \in FFFields |-> config[f]],
          [name |-> config.name, trainable |-> config.trainable])

\* ------------------------------------ SineCosinePositionEmbedding object
PEModeArgs  == {"expand", "add", "concat", "multiply"}
PEOutputDims == {None} \cup {Some(v) : v \in 0..MaxDim}

PENull == [exists |-> FALSE, supports_masking |-> FALSE, mode |-> "",
           output_dim |-> None, name |-> "", trainable |-> FALSE]

PEKwargs == [name |-> "sine_cosine_position_embedding", trainable |-> TRUE]

RequiresOutputDim_ExpandOnly(mode) == mode \in {"expand"}
RequiresOutputDim(mode) == mode \in {"expand", "concat"}

\* SineCosinePositionEmbedding.__init__: how construction ends.
PEInitStatus(mode, output_dim) ==
    IF mode \notin {"expand", "add", "concat"} THEN "AssertionError"
    ELSE IF RequiresOutputDim(mode) /\ IsNone(output_dim) THEN "NotImplementedError"
    ELSE IF RequiresOutputDim(mode) /\ ValOf(output_dim) % 2 # 0 THEN "NotImplementedError"
    ELSE "ok"

\* SineCosinePositionEmbedding.__init__: the instance a successful
\* construction leaves.
PENew(mode, output_dim, kwargs) ==
    [exists |-> TRUE, supports_masking |-> TRUE, mode |-> mode,
     output_dim |-> output_dim, name |-> kwargs.name, trainable |-> kwargs.trainable]

\* The attributes a constructed instance has: those __init__ assigns and
\* those of the base layer.
PEAttrs(self) == IF self.exists
                 THEN {"supports_masking", "mode", "output_dim", "name", "trainable"}
                 ELSE {}
PEAttr(self, attr) == self[attr]

\* SineCosinePositionEmbedding.get_config
PEGetConfig(self) ==
    [mode |-> self.mode, output_dim |-> self.output_dim]
    @@ [name |-> self.name, trainable |-> self.trainable]

\* compute_output_shape whose concat branch keeps the old trailing dimension.
PEComputeOutputShape_KeepsLast(self, input_shape) ==
    IF self.mode = "expand" THEN input_shape \o <<ValOf(self.output_dim)>>
    ELSE IF self.mode = "concat"
         THEN input_shape \o <<Last(input_shape) + ValOf(self.output_dim)>>
         ELSE input_shape

\* SineCosinePositionEmbedding.compute_output_shape
PEComputeOutputShape(self, input_shape) ==
    IF self.mode = "expand" THEN input_shape \o <<ValOf(self.output_dim)>>
    ELSE IF self.mode = "concat"
         THEN Front(input_shape) \o <<Last(input_shape) + ValOf(self.output_dim)>>
         ELSE input_shape

\* What call() returns: a tensor (shape; the positional signal's channels,
\* first channel first; where the positions came from; how the signal was
\* combined with the input) or a raised error.
PETensor(shape, signal, pos, combine) ==
    [status |-> "ok", shape |-> shape, signal |-> signal, pos |-> pos,
     combine |-> combine]
PERaised(error) ==
    [status |-> error, shape |-> <<>>, signal |-> <<>>, pos |-> "", combine |-> ""]

\* One channel of the signal: fn(p / 10000^(num/den)).
Channel(fn, num, den) == [fn |-> fn, num |-> num, den |-> den]

\* K.stack([sin_embed, cos_embed], axis=-1) flattened along the last two
\* axes: element (k, j) lands at channel 2k + j.
Interleave(sin_embed, cos_embed) ==
    [n \in 1..(2 * Len(sin_embed)) |->
        IF (n - 1) % 2 = 0 THEN sin_embed[((n - 1) \div 2) + 1]
                           ELSE cos_embed[((n - 1) \div 2) + 1]]

\* Broadcasting of one dimension in an elementwise add; 0 - 1 when the
\* dimensions are incompatible.
BroadcastDim(a, b) == IF a = b THEN a ELSE IF a = 1 THEN b ELSE IF b = 1 THEN a ELSE 0 - 1

\* SineCosinePositionEmbedding.call
PECallObj(self, inputs) ==
    LET input_shape == inputs
        batch_size  == input_shape[1]
        seq_len     == input_shape[2]
    IN
    IF self.mode = "add" /\ Len(input_shape) < 3 THEN PERaised("IndexError")
    ELSE IF "model" \notin PEAttrs(self) THEN PERaised("AttributeError")
    ELSE
    LET output_dim == IF self.mode = "add" THEN input_shape[3]
                                           ELSE ValOf(self.output_dim)
        pos       == IF PEAttr(self, "model") \in {"add", "concat"}
                     THEN "arange" ELSE "inputs"
        pos_shape == IF pos = "arange" THEN <<batch_size, seq_len>> ELSE input_shape
        half      == output_dim \div 2
        evens     == [k \in 1..half |-> (k - 1) * 2]
        odds      == [k \in 1..half |-> (k - 1) * 2 + 1]
        sin_embed == [k \in 1..half |-> Channel("sin", evens[k], output_dim)]
        cos_embed == [k \in 1..half |-> Channel("cos", odds[k] - 1, output_dim)]
        embed     == Interleave(sin_embed, cos_embed)
        total     == batch_size * seq_len * (2 * half)
            \* elements of embed for a 2-D pos_input
        rows      == IF seq_len * output_dim = 0 THEN 0 - 1
                     ELSE IF total % (seq_len * output_dim) # 0 THEN 0 - 1
                     ELSE total \div (seq_len * output_dim)
    IN  IF Len(pos_shape) # 2 \/ rows < 0 THEN PERaised("ValueError")
        ELSE IF 2 * half # output_dim
             THEN \* the reshape regroups channels across positions
                  IF self.mode = "add" /\ BroadcastDim(rows, batch_size) >= 0
                  THEN PETensor(<<BroadcastDim(rows, batch_size), seq_len, output_dim>>,
                                <<>>, pos, "add")
                  ELSE PERaised("ValueError")
        ELSE IF self.mode = "add"
             THEN PETensor(<<batch_size, seq_len, output_dim>>, embed, pos, "add")
        ELSE IF self.mode = "concat"
             THEN IF Len(input_shape) # 3 THEN PERaised("ValueError")
                  ELSE PETensor(<<batch_size, seq_len, input_shape[3] + output_dim>>,
                                embed, pos, "concat")
        ELSE PETensor(<<batch_size, seq_len, output_dim>>, embed, pos, "none")

\* ------------------------------------------------------------ input domains
\* An unknown (None) dimension of a static shape.
NoneDim == -1

\* Runtime shapes of FeedForward inputs: (batch, feature_dim) and
\* (batch, seq_len, feature_dim).
FFShapes ==
    {<<MaxBatch, f>> : f \in 1..MaxFeat} \cup {<<MaxBatch, MaxSeq, f>> : f \in 1..MaxFeat}

\* Static shapes: the batch dimension may be unknown.
FFStaticShapes == FFShapes \cup {<<NoneDim, MaxSeq, f>> : f \in 1..MaxFeat}

\* Well-formed inputs of the position embedding, by mode.
PEInputs(mode) ==
    IF mode = "expand"
    THEN {<<b, s>> : b \in 1..MaxBatch, s \in 1..MaxSeq}
    ELSE {<<b, s, f>> : b \in 1..MaxBatch, s \in 1..MaxSeq, f \in 1..MaxFeat}

PEStaticShapes ==
    {<<b, s>> : b \in {NoneDim, MaxBatch}, s \in 1..MaxSeq}
    \cup {<<b, s, f>> : b \in {NoneDim, MaxBatch}, s \in 1..MaxSeq, f \in 1..MaxFeat}

\* ------------------------------------------------------- observed results
FFNoCall  == [op |-> "", inShape |-> <<>>, training |-> FALSE,
              params |-> <<0, 0, 0, 0>>, builtOn |-> 0, out |-> Raised("")]
FFNoCfg   == [valid |-> FALSE, map |-> FFGetConfig(FFNull)]
PENoCtor  == [called |-> FALSE, via |-> "", mode |-> "", output_dim |-> None,
              status |-> ""]
PENoCall  == [called |-> FALSE, inShape |-> <<>>, mode |-> "", output_dim |-> None,
              out |-> PERaised("")]
PENoShape == [called |-> FALSE, inShape |-> <<>>, mode |-> "", output_dim |-> None,
              out |-> <<>>]
PENoCfg   == [valid |-> FALSE, map |-> PEGetConfig(PENull)]

Init ==
    /\ ff = FFNull /\ ffOut = FFNoCall /\ ffPrev = FFNoCall
    /\ ffCfg = FFNoCfg /\ ffFrom = FFNoCfg
    /\ pe = PENull /\ peCtor = PENoCtor /\ peOut = PENoCall
    /\ peShape = PENoShape /\ peCfg = PENoCfg /\ peFrom = PENoCfg

\* ----------------------------------------------------- FeedForward actions
\* layer = FeedForward(**args)
FFConstruct(args) ==
    /\ ~ff.exists
    /\ ff' = FFNew(args, FFKwargs)
    /\ ffOut' = FFNoCall /\ ffPrev' = FFNoCall
    /\ ffCfg' = FFNoCfg /\ ffFrom' = FFNoCfg
    /\ UNCHANGED peVars

FFConstructCore == \E args \in FFArgsCore : FFConstruct(args)
FFConstructAny  == \E args \in FFArgsAll : FFConstruct(args)

\* layer.build(input_shape); it returns nothing.
FFBuild ==
    /\ ff.exists
    /\ FFBuilds(ff) < MaxBuilds
    /\ \E input_shape \in FFStaticShapes : ff' = FFBuildObj(ff, input_shape)
    /\ ffOut' = FFNoCall /\ ffPrev' = FFNoCall
    /\ UNCHANGED <<ffCfg, ffFrom>>
    /\ UNCHANGED peVars

\* layer.call(inputs, training=training); mask is the random mask the
\* dropout layer draws when it runs in training mode.
FFCall ==
    /\ ff.exists
    /\ \E shape \in FFShapes, training \in BOOLEAN :
       \E mask \in (IF training /\ AppliesDropout(ff) THEN 1..NMasks ELSE {0}) :
          /\ ffOut' = [op       |-> "call",
                       inShape  |-> shape,
                       training |-> training,
                       params   |-> <<ff.W1, ff.W2, ff.b1, ff.b2>>,
                       builtOn  |-> IF ff.W1 = 0 THEN 0 ELSE ff.weights[ff.W1].shape[1],
                       out      |-> FFCallObj(ff, InputTensor(shape), training, mask)]
          /\ ffPrev' = IF ffOut.op = "call" /\ ffOut.inShape = shape
                       THEN ffOut ELSE FFNoCall
    /\ UNCHANGED <<ff, ffCfg, ffFrom>>
    /\ UNCHANGED peVars

\* layer.compute_output_shape(input_shape)
FFShapeInference ==
    /\ ff.exists
    /\ \E input_shape \in FFStaticShapes :
          ffOut' = [op       |-> "compute_output_shape",
                    inShape  |-> input_shape,
                    training |-> FALSE,
                    params   |-> <<ff.W1, ff.W2, ff.b1, ff.b2>>,
                    builtOn  |-> IF ff.W1 = 0 THEN 0 ELSE ff.weights[ff.W1].shape[1],
                    out      |-> FFComputeOutputShape(ff, input_shape)]
    /\ ffPrev' = FFNoCall
    /\ UNCHANGED <<ff, ffCfg, ffFrom>>
    /\ UNCHANGED peVars

\* config = layer.get_config()
FFExportConfig ==
    /\ ff.exists
    /\ ffCfg' = [valid |-> TRUE, map |-> FFGetConfig(ff)]
    /\ UNCHANGED <<ff, ffOut, ffPrev, ffFrom>>
    /\ UNCHANGED peVars

\* layer = FeedForward.from_config(config)
FFFromConfig ==
    /\ ffCfg.valid
    /\ ff' = FFFromConfigObj(ffCfg.map)
    /\ ffFrom' = ffCfg
    /\ ffCfg' = FFNoCfg
    /\ ffOut' = FFNoCall /\ ffPrev' = FFNoCall
    /\ UNCHANGED peVars

\* ---------------------------------------------- position embedding actions
PEInit(mode, output_dim, via) ==
    LET status == PEInitStatus(mode, output_dim) IN
    /\ peCtor' = [called |-> TRUE, via |-> via, mode |-> mode,
                  output_dim |-> output_dim, status |-> status]
    /\ pe' = IF status = "ok" THEN PENew(mode, output_dim, PEKwargs) ELSE PENull
    /\ peOut' = PENoCall /\ peShape' = PENoShape /\ peCfg' = PENoCfg

\* layer = SineCosinePositionEmbedding(mode, output_dim)
PEConstruct ==
    /\ ~pe.exists
    /\ \E mode \in PEModeArgs, output_dim \in PEOutputDims :
          PEInit(mode, output_dim, "init")
    /\ peFrom' = PENoCfg
    /\ UNCHANGED ffVars

\* layer.call(inputs)
PECall ==
    /\ pe.exists
    /\ \E inputs \in PEInputs(pe.mode) :
          peOut' = [called |-> TRUE, inShape |-> inputs, mode |-> pe.mode,
                    output_dim |-> pe.output_dim, out |-> PECallObj(pe, inputs)]
    /\ UNCHANGED <<pe, peCtor, peShape, peCfg, peFrom>>
    /\ UNCHANGED ffVars

\* layer.compute_output_shape(input_shape)
PEShapeInference ==
    /\ pe.exists
    /\ \E input_shape \in PEStaticShapes :
          peShape' = [called |-> TRUE, inShape |-> input_shape, mode |-> pe.mode,
                      output_dim |-> pe.output_dim,
                      out |-> PEComputeOutputShape(pe, input_shape)]
    /\ UNCHANGED <<pe, peCtor, peOut, peCfg, peFrom>>
    /\ UNCHANGED ffVars

\* config = layer.get_config()
PEExportConfig ==
    /\ pe.exists
    /\ peCfg' = [valid |-> TRUE, map |-> PEGetConfig(pe)]
    /\ UNCHANGED <<pe, peCtor, peOut, peShape, peFrom>>
    /\ UNCHANGED ffVars

\* layer = SineCosinePositionEmbedding.from_config(config)
PEFromConfig ==
    /\ peCfg.valid
    /\ PEInit(peCfg.map.mode, peCfg.map.output_dim, "from_config")
    /\ peFrom' = peCfg
    /\ UNCHANGED ffVars

\* ---------------------------------------------------------- specifications
\* The FeedForward lifecycle: construction, build, call, shape inference.
NextFF == FFConstructCore \/ FFBuild \/ FFCall \/ FFShapeInference
SpecFF == Init /\ [][NextFF]_vars

\* The position embedding: construction, call, shape inference.
NextPE == PEConstruct \/ PECall \/ PEShapeInference
SpecPE == Init /\ [][NextPE]_vars

\* Configuration export and reconstruction of both layers.
NextCfg == FFConstructAny \/ FFExportConfig \/ FFFromConfig
           \/ PEConstruct \/ PEExportConfig \/ PEFromConfig
SpecCfg == Init /\ [][NextCfg]_vars

\* ================================================================== claims
Ops(steps) == [i \in DOMAIN steps |-> steps[i].op]
HasStep(steps, op, p) == \E i \in DOMAIN steps : steps[i].op = op /\ steps[i].p = p

\* ------------------------------------------------------------------- C1
\* C1: constructing SineCosinePositionEmbedding(mode, output_dim) succeeds
\* if and only if mode is one of expand, add, concat and, for expand and
\* concat, output_dim is given and even; a failed construction leaves no
\* instance.
C1_ConstructionValidates ==
    peCtor.called =>
        LET mode == peCtor.mode
            od   == peCtor.output_dim
            valid == /\ mode \in {"expand", "add", "concat"}
                     /\ (mode \in {"expand", "concat"} =>
                            (~IsNone(od) /\ ValOf(od) % 2 = 0))
        IN  /\ (peCtor.status = "ok") <=> valid
            /\ pe.exists <=> valid
            /\ pe.exists => (pe.mode = mode /\ pe.output_dim = od)

C1_Witness ==
    /\ peCtor.called /\ peCtor.via = "init"
    /\ peCtor.mode = "concat" /\ peCtor.output_dim = Some(3)
    /\ peCtor.status = "NotImplementedError" /\ ~pe.exists

\* ------------------------------------------------------------------- C2
\* C2: call() of a constructed SineCosinePositionEmbedding returns a tensor
\* for every well-formed input, of shape (batch, seq_len, feature_dim +
\* output_dim) in concat mode, of the input's shape in add mode, and of
\* shape (batch, seq_len, output_dim) in expand mode.
C2_CallReturnsTensor ==
    peOut.called =>
        /\ peOut.out.status = "ok"
        /\ peOut.out.shape =
              (CASE peOut.mode = "concat" ->
                        <<peOut.inShape[1], peOut.inShape[2],
                          peOut.inShape[3] + ValOf(peOut.output_dim)>>
                 [] peOut.mode = "add" -> peOut.inShape
                 [] OTHER -> peOut.inShape \o <<ValOf(peOut.output_dim)>>)

\* ------------------------------------------------------------------- C3
\* C3: in the signal call() computes, channel 2i is sin(p / 10000^(2i/d))
\* and channel 2i+1 is cos(p / 10000^(2i/d)) for every i in [0, d/2), the
\* positions p being 0..seq_len-1 in add and concat modes and the input's
\* values in expand mode.
C3_SignalInterleaved ==
    peOut.called =>
        /\ peOut.out.status = "ok"
        /\ LET d == IF peOut.mode = "add" THEN peOut.inShape[3]
                                         ELSE ValOf(peOut.output_dim)
           IN  /\ Len(peOut.out.signal) = 2 * (d \div 2)
               /\ \A i \in 0..((d \div 2) - 1) :
                     /\ peOut.out.signal[2 * i + 1] = Channel("sin", 2 * i, d)
                     /\ peOut.out.signal[2 * i + 2] = Channel("cos", 2 * i, d)
               /\ peOut.out.pos = IF peOut.mode \in {"add", "concat"}
                                  THEN "arange" ELSE "inputs"

\* ------------------------------------------------------------------- C4
\* C4: a FeedForward layer built on an input shape (..., feature_dim) holds
\* W1 of shape (feature_dim, units) and W2 of shape (units, feature_dim);
\* call() on an input of that feature dimension succeeds with an output
\* shape equal to the input shape, and compute_output_shape returns its
\* input shape.
C4_ShapePreserved ==
    /\ ff.built =>
          LET f == Last(ff.build_input_shape) IN
          /\ ff.weights[ff.W1].shape = <<f, ff.units>>
          /\ ff.weights[ff.W2].shape = <<ff.units, f>>
          /\ (ffOut.op = "call" /\ Last(ffOut.inShape) = f) =>
                (ffOut.out.status = "ok" /\ ffOut.out.shape = ffOut.inShape)
    /\ ffOut.op = "compute_output_shape" =>
          (ffOut.out.status = "ok" /\ ffOut.out.shape = ffOut.inShape)

C4_Witness ==
    /\ ff.built /\ ffOut.op = "call" /\ ffOut.out.status = "ok"
    /\ Len(ffOut.inShape) = 3 /\ ff.units # Last(ffOut.inShape)
    /\ ffOut.out.shape = ffOut.inShape

\* ------------------------------------------------------------------- C5
\* C5: after build the layer's W1, W2, b1, b2 attributes are bound to
\* exactly four tensors when use_bias is true (b1 of shape (units,), b2 of
\* shape (feature_dim,)) and to exactly W1 and W2 when it is false; after
\* the first build these are all the tensors the layer owns.
C5_BiasTensors ==
    ff.built =>
        LET f     == Last(ff.build_input_shape)
            bound == {ff.W1, ff.W2, ff.b1, ff.b2} \ {0}
        IN  /\ ff.W1 # 0 /\ ff.weights[ff.W1].name = <<ff.name, "W1">>
            /\ ff.W2 # 0 /\ ff.weights[ff.W2].name = <<ff.name, "W2">>
            /\ ff.use_bias =>
                  /\ Cardinality(bound) = 4
                  /\ ff.weights[ff.b1].name = <<ff.name, "b1">>
                  /\ ff.weights[ff.b1].shape = <<ff.units>>
                  /\ ff.weights[ff.b2].name = <<ff.name, "b2">>
                  /\ ff.weights[ff.b2].shape = <<f>>
            /\ ~ff.use_bias =>
                  (Cardinality(bound) = 2 /\ ff.b1 = 0 /\ ff.b2 = 0)
            /\ FFBuilds(ff) = 1 => DOMAIN ff.weights = bound

C5_Witness ==
    /\ ff.built /\ ~ff.use_bias /\ ff.dropout_rate > 0
    /\ Len(ff.weights) = 2 /\ ff.b1 = 0 /\ ff.b2 = 0

\* ------------------------------------------------------------------- C6
\* C6: parameters are materialized exactly once: a build() on a layer that
\* is already built allocates no further tensor and leaves W1, W2, b1 and
\* b2 as they are.
C6_MaterializedOnce ==
    [][(ff.built /\ ff'.built) =>
          /\ ff'.weights = ff.weights
          /\ <<ff'.W1, ff'.W2, ff'.b1, ff'.b2>> = <<ff.W1, ff.W2, ff.b1, ff.b2>>]_vars

\* ------------------------------------------------------------------- C7
\* C7: with dropout_rate = 0.0 build creates no dropout layer, call applies
\* none, and a training-mode call returns what an inference-mode call on
\* the same input with the same parameters returns; with dropout_rate > 0.0
\* two inference-mode calls on the same input return the same.
C7_DropoutDeterminism ==
    /\ (ff.built /\ ff.dropout_rate = 0) => ~ff.dropout_layer
    /\ (ffOut.op = "call" /\ ff.dropout_rate = 0) =>
          ~(\E i \in DOMAIN ffOut.out.steps : ffOut.out.steps[i].op = "dropout")
    /\ (/\ ffOut.op = "call" /\ ffPrev.op = "call"
        /\ ffOut.inShape = ffPrev.inShape /\ ffOut.params = ffPrev.params) =>
          /\ ff.dropout_rate = 0 => ffOut.out = ffPrev.out
          /\ (ff.dropout_rate > 0 /\ ~ffOut.training /\ ~ffPrev.training) =>
                ffOut.out = ffPrev.out

C7_Witness ==
    /\ ff.built /\ ff.dropout_rate = 0
    /\ ffOut.op = "call" /\ ffPrev.op = "call"
    /\ ffOut.training /\ ~ffPrev.training
    /\ ffOut.out.status = "ok" /\ ffOut.out = ffPrev.out

\* ------------------------------------------------------------------- C8
\* C8: a layer reconstructed from the mapping get_config returned gives, from
\* its own get_config, the same value for every constructor field; and
\* reconstructing a SineCosinePositionEmbedding never fails validation.
C8_ConfigRoundTrip ==
    /\ (ffFrom.valid /\ ffCfg.valid) =>
          \A f \in FFFields : ffCfg.map[f] = ffFrom.map[f]
    /\ (peFrom.valid /\ peCfg.valid) =>
          /\ peCfg.map.mode = peFrom.map.mode
          /\ peCfg.map.output_dim = peFrom.map.output_dim
    /\ (peCtor.called /\ peCtor.via = "from_config") =>
          (peCtor.status = "ok" /\ pe.exists)

C8_Witness ==
    /\ ffFrom.valid /\ ffCfg.valid
    /\ ffCfg.map.activation = "relu"
    /\ ffCfg.map.kernel_initializer # ffCfg.map.bias_initializer
    /\ ffCfg.map.kernel_regularizer # "None"
    /\ peFrom.valid /\ peCfg.valid /\ peCfg.map.mode = "concat"

\* ------------------------------------------------------------------- C9
\* C9: compute_output_shape returns the input shape with output_dim appended
\* in expand mode, the input shape with its trailing dimension increased by
\* output_dim (leading dimensions unchanged) in concat mode, and the input
\* shape itself in add mode, whatever output_dim is configured.
C9_StaticOutputShape ==
    peShape.called =>
        LET in  == peShape.inShape
            out == peShape.out
        IN  CASE peShape.mode = "expand" ->
                    /\ Len(out) = Len(in) + 1
                    /\ \A i \in 1..Len(in) : out[i] = in[i]
                    /\ out[Len(out)] = ValOf(peShape.output_dim)
              [] peShape.mode = "concat" ->
                    /\ Len(out) = Len(in)
                    /\ \A i \in 1..(Len(in) - 1) : out[i] = in[i]
                    /\ out[Len(out)] = in[Len(in)] + ValOf(peShape.output_dim)
              [] OTHER -> peShape.mode = "add" /\ out = in

C9_Witness ==
    /\ peShape.called /\ peShape.mode = "concat"
    /\ peShape.inShape[1] = NoneDim /\ Len(peShape.inShape) = 3
    /\ ValOf(peShape.output_dim) > 0

\* ------------------------------------------------------------------ C10
\* Position of a step in the order: dot W1, bias b1, activation, dropout,
\* dot W2, bias b2.
OpRank(step) ==
    CASE step.op = "input"                       -> 0
      [] step.op = "dot" /\ step.p = "W1"        -> 1
      [] step.op = "bias_add" /\ step.p = "b1"   -> 2
      [] step.op = "activation"                  -> 3
      [] step.op = "dropout"                     -> 4
      [] step.op = "dot" /\ step.p = "W2"        -> 5
      [] step.op = "bias_add" /\ step.p = "b2"   -> 6
      [] OTHER                                   -> 7

StepsInOrder(steps) ==
    /\ \A i \in 1..(Len(steps) - 1) : OpRank(steps[i]) < OpRank(steps[i + 1])
    /\ \A i \in DOMAIN steps : OpRank(steps[i]) < 7
    /\ HasStep(steps, "input", "") /\ HasStep(steps, "dot", "W1")
    /\ HasStep(steps, "dot", "W2")

\* Which optional steps a call applied; the nonlinearity is off when the
\* activation is the identity function.
Toggles(steps) ==
    [b1   |-> HasStep(steps, "bias_add", "b1"),
     act  |-> \E i \in DOMAIN steps :
                 steps[i].op = "activation" /\ steps[i].fn # "<function linear>",
     drop |-> HasStep(steps, "dropout", ""),
     b2   |-> HasStep(steps, "bias_add", "b2")]

\* The optional steps a training call applies on a layer configured by args.
TogglesOf(args) ==
    Toggles(FFCallObj(FFBuildObj(FFNew(args, FFKwargs), <<MaxBatch, 1>>),
                      InputTensor(<<MaxBatch, 1>>), TRUE, 1).steps)

\* C10 as stated: the steps are applied in the fixed order, and each of the
\* four optional steps can be switched by the configuration while the other
\* three stay as they are.
C10_FourIndependentToggles ==
    (ffOut.op = "call" /\ ffOut.out.status = "ok") =>
        LET t == Toggles(ffOut.out.steps) IN
        /\ StepsInOrder(ffOut.out.steps)
        /\ \A k \in {"b1", "act", "drop", "b2"} :
              \E args \in FFArgsCore : TogglesOf(args) = [t EXCEPT ![k] = ~@]

\* C10 amended: the steps are applied in the fixed order; the two bias adds
\* are on or off together (use_bias); and the bias pair, the nonlinearity
\* and dropout can each be switched by the configuration while the other
\* two stay as they are.
C10_OrderAndToggles ==
    (ffOut.op = "call" /\ ffOut.out.status = "ok") =>
        LET t == Toggles(ffOut.out.steps) IN
        /\ StepsInOrder(ffOut.out.steps)
        /\ t.b1 = t.b2
        /\ t.b1 = ff.use_bias
        /\ t.drop = (ff.dropout_rate > 0)
        /\ \E args \in FFArgsCore :
              TogglesOf(args) = [t EXCEPT !.b1 = ~@, !.b2 = ~@]
        /\ \E args \in FFArgsCore : TogglesOf(args) = [t EXCEPT !.act = ~@]
        /\ \E args \in FFArgsCore : TogglesOf(args) = [t EXCEPT !.drop = ~@]

C10_Witness ==
    /\ ffOut.op = "call" /\ ffOut.out.status = "ok"
    /\ Ops(ffOut.out.steps) =
          <<"input", "dot", "bias_add", "activation", "dropout", "dot", "bias_add">>
    /\ ffOut.training

====
